---- MODULE Spec2Model ----
(***************************************************************************)
(* jquery-moodboard (src/moodboard.js): a slideshow attached to a          *)
(* container element.  The model follows the plugin's code: the data       *)
(* object built by _do_initialize, the window-load continuation, the       *)
(* command handlers wrapped by _handler, and the setInterval callback.     *)
(*                                                                         *)
(* JavaScript objects are references: a data object lives in `heap` and    *)
(* the container's jQuery data slot (`attached`) and every timer closure   *)
(* hold its index.  JavaScript arrays are functions over 0..n-1.           *)
(***************************************************************************)
EXTENDS Integers, Sequences, FiniteSets

\* ------------------------------------------------------------------ bounds
\* Each container holds between 1 and MaxSlides .slide children.
MaxSlides == 2
\* jump(n) is called with n in -MaxJump..MaxJump.
MaxJump == 3
\* At most MaxInits data objects are ever built by _do_initialize.
MaxInits == 2

\* The container elements of the page.
Containers == {1, 2}
\* The containers the page's scripts act on.
Page == {1}
JumpArgs == (0 - MaxJump)..MaxJump

\* null / undefined for object references, timer handles and width/height.
Null == 0

\* ------------------------------------------------------------- environment
\* Measured sizes ($slide.width(), $slide.height(), $mb.width(), $mb.height()).
\* All sizes are even so that (a - b) / 2 is an integer, as opposed to a
\* JavaScript fraction.
SlideWidth(mb, i) == 2 * (i + 1)
SlideHeight(mb, i) == 2 * (i + mb)
MbWidth(mb) == 4
MbHeight(mb) == 4

\* defaults (moodboard.js 113-123)
SlideTimeDefault == 2500
defaults ==
    [width |-> Null, height |-> Null, slide_time |-> SlideTimeDefault,
     autostart |-> TRUE, controls |-> TRUE]

\* The option objects the page passes to init: every key is optional; a key
\* that is absent is drawn here with its default value.
Options ==
    {defaults,
     [defaults EXCEPT !.autostart = FALSE, !.controls = FALSE, !.width = 8]}

\* ------------------------------------------------------------------- state
VARIABLES
    nslides,    \* nslides[mb]: number of .slide children of container mb
    loaded,     \* the window's load event has fired
    pending,    \* load handlers bound before the event, in binding order
    heap,       \* the data objects built by _do_initialize
    attached,   \* attached[mb]: $mb.data('moodboard'), index in heap or Null
    css,        \* css[mb][i]: inline style of slide i of container mb
    playing,    \* playing[mb]: container has the class 'playing'
    marker,     \* marker[mb]: container has the class 'moodboard'
    controls,   \* controls[mb]: number of .controls blocks in the container
    timers,     \* the intervals scheduled by setInterval and not cleared
    last        \* the most recent call or callback and how it ended

vars == <<nslides, loaded, pending, heap, attached, css, playing, marker,
          controls, timers, last>>

\* The mutable world the handlers act on, as one record.
World ==
    [heap |-> heap, attached |-> attached, css |-> css, playing |-> playing,
     marker |-> marker, controls |-> controls, timers |-> timers]

\* ----------------------------------------------------------------- helpers
\* JavaScript arrays.
JSLen(a) == Cardinality(DOMAIN a)
Push(a, x) == [i \in 0..JSLen(a) |-> IF i < JSLen(a) THEN a[i] ELSE x]
EmptyArray == [i \in {} |-> 0]

\* Math.max
Max(a, b) == IF a >= b THEN a ELSE b

\* JavaScript's % on integers with c > 0: the remainder takes the sign of
\* the dividend (-1 % 5 is -1; -5 % 5 is -0, which indexes like 0).
JSRem(n, c) == IF n >= 0 THEN n % c ELSE 0 - ((0 - n) % c)

\* The style of a slide no script has touched: opacity 1 and z-index auto
\* (0) are the CSS initial values; `laid` tells that _init_slides has set
\* the box.
NoStyle ==
    [laid |-> FALSE, width |-> 0, height |-> 0, left |-> 0, top |-> 0,
     opacity |-> 1, zindex |-> 0]

\* What a call returns to the model: the world after it and the error it
\* threw ("none" when it returned normally).
Ok(w) == [w |-> w, err |-> "none"]
Throw(w, e) == [w |-> w, err |-> e]

\* ------------------------------------------------------- default strategies
\* _init_slides (moodboard.js 66-81): resolve the container size, then lay
\* out every slide; only slide 0 stays visible.
SlideBox(d, i) ==
    [laid |-> TRUE,
     width |-> d.widths[i],
     height |-> d.heights[i],
     left |-> Max(0, (d.width - d.widths[i]) \div 2),
     top |-> Max(0, (d.height - d.heights[i]) \div 2),
     opacity |-> IF i = 0 THEN 1 ELSE 0]

_init_slides(w, id) ==
    LET d0 == w.heap[id]
        mb == d0.mb
        d == [d0 EXCEPT !.width = IF @ = Null THEN MbWidth(mb) ELSE @,
                        !.height = IF @ = Null THEN MbHeight(mb) ELSE @]
    IN  [w EXCEPT
            !.heap[id] = d,
            !.css[mb] = [s \in DOMAIN @ |->
                IF \E i \in DOMAIN d.slides : d.slides[i] = s
                THEN LET i == CHOOSE i \in DOMAIN d.slides : d.slides[i] = s
                         b == SlideBox(d, i)
                     IN  [@[s] EXCEPT !.laid = b.laid, !.width = b.width,
                                      !.height = b.height, !.left = b.left,
                                      !.top = b.top, !.opacity = b.opacity]
                ELSE @[s]]]

\* _init_controls (moodboard.js 90-99): append one .controls block.
_init_controls(w, id) ==
    [w EXCEPT !.controls[w.heap[id].mb] = @ + 1]

\* The z-index _reveal gives the outgoing and the incoming slide.
ZHidden == 100
ZRevealed == 101

\* _reveal with the assignment of data.current moved before the two .css
\* calls: the index is stored even when the incoming slide does not exist.
RevealAssignFirst(w, id, newidx) ==
    LET d == w.heap[id]
        mb == d.mb
        w0 == [w EXCEPT !.heap[id].current = newidx]
    IN  IF d.current \notin DOMAIN d.slides
        THEN Throw(w0, "TypeError")
        ELSE LET w1 == [w0 EXCEPT !.css[mb][d.slides[d.current]].zindex = ZHidden,
                                  !.css[mb][d.slides[d.current]].opacity = 0]
             IN  IF newidx \notin DOMAIN d.slides
                 THEN Throw(w1, "TypeError")
                 ELSE Ok([w1 EXCEPT
                            !.css[mb][d.slides[newidx]].zindex = ZRevealed,
                            !.css[mb][d.slides[newidx]].opacity = 1])

\* _reveal (moodboard.js 107-111).  data.slides[k] is undefined for any k
\* that is not an index of the array, and calling .css on it throws a
\* TypeError: the statements before it have run, the ones after have not.
_reveal(w, id, newidx) ==
    LET d == w.heap[id]
        mb == d.mb
    IN  IF d.current \notin DOMAIN d.slides
        THEN Throw(w, "TypeError")
        ELSE LET w1 == [w EXCEPT !.css[mb][d.slides[d.current]].zindex = ZHidden,
                                 !.css[mb][d.slides[d.current]].opacity = 0]
             IN  IF newidx \notin DOMAIN d.slides
                 THEN Throw(w1, "TypeError")
                 ELSE Ok([w1 EXCEPT
                            !.css[mb][d.slides[newidx]].zindex = ZRevealed,
                            !.css[mb][d.slides[newidx]].opacity = 1,
                            !.heap[id].current = newidx])

\* previous without the "+ data.count" that keeps the dividend positive.
PreviousIdxNoWrap(d) == JSRem(d.current - 1, d.count)

\* The indexes the commands and the timer pass to _reveal.
NextIdx(d) == JSRem(d.current + 1, d.count)
PreviousIdx(d) == JSRem(d.current + d.count - 1, d.count)
JumpIdx(d, n) == JSRem(n, d.count)

\* -------------------------------------------------------------- the timer
\* setInterval returns a handle that differs from every handle still
\* scheduled or still stored in a data object; its number is not observed
\* otherwise.
UsedHandles(w) ==
    {t.id : t \in w.timers} \cup {w.heap[i].interval : i \in DOMAIN w.heap}
FreshHandle(w) ==
    CHOOSE h \in 1..(Cardinality(UsedHandles(w)) + 1) :
        /\ h \notin UsedHandles(w)
        /\ \A g \in 1..(h - 1) : g \in UsedHandles(w)

\* clearInterval that stops every interval of the page, as it would with
\* one shared handle.
ClearEveryInterval(w, h) ==
    [w EXCEPT !.timers = {}]

\* clearInterval(h): a handle that is not scheduled is ignored.
clearInterval(w, h) ==
    [w EXCEPT !.timers = {t \in @ : t.id # h}]

\* --------------------------------------------------------------- commands
\* Every command runs inside _handler (moodboard.js 178-192): data is read
\* from the container; when the command returns a truthy value it is
\* stored back on the container.  A command reading a property of an
\* undefined data throws a TypeError before it does anything.
Store(w, mb, ret) ==
    IF ret # Null THEN [w EXCEPT !.attached[mb] = ret] ELSE w

\* pause that also goes back to the first slide, as a "stop" would.
PauseRewinds(w, mb) ==
    LET data == w.attached[mb] IN
    IF data = Null THEN Throw(w, "TypeError")
    ELSE IF w.heap[data].interval # Null
    THEN LET w1 == clearInterval(w, w.heap[data].interval)
             w2 == [w1 EXCEPT !.heap[data].interval = Null,
                              !.heap[data].current = 0,
                              !.playing[mb] = FALSE]
         IN  Ok(Store(w2, mb, data))
    ELSE Ok(w)

\* pause (moodboard.js 272-279)
pause(w, mb) ==
    LET data == w.attached[mb] IN
    IF data = Null THEN Throw(w, "TypeError")
    ELSE IF w.heap[data].interval # Null
    THEN LET w1 == clearInterval(w, w.heap[data].interval)
             w2 == [w1 EXCEPT !.heap[data].interval = Null,
                              !.playing[mb] = FALSE]
         IN  Ok(Store(w2, mb, data))
    ELSE Ok(w)

\* play (moodboard.js 256-264): returns nothing, so nothing is stored.
play(w, mb) ==
    LET data == w.attached[mb] IN
    IF data = Null THEN Throw(w, "TypeError")
    ELSE IF w.heap[data].interval = Null
    THEN LET h == FreshHandle(w)
         IN  Ok([w EXCEPT !.playing[mb] = TRUE,
                          !.heap[data].interval = h,
                          !.timers = @ \cup {[id |-> h, data |-> data]}])
    ELSE Ok(w)

\* playpause (moodboard.js 243-248)
playpause(w, mb) ==
    LET data == w.attached[mb] IN
    IF data = Null THEN Throw(w, "TypeError")
    ELSE IF w.heap[data].interval # Null THEN pause(w, mb) ELSE play(w, mb)

\* The common shape of next, previous and jump (moodboard.js 209-237):
\* pause when data.interval is set, reveal, return data.
PauseIfPlaying(w, mb) ==
    IF w.heap[w.attached[mb]].interval # Null THEN pause(w, mb).w ELSE w

next(w, mb) ==
    LET data == w.attached[mb] IN
    IF data = Null THEN Throw(w, "TypeError")
    ELSE LET w1 == PauseIfPlaying(w, mb)
             r == _reveal(w1, data, NextIdx(w1.heap[data]))
         IN  IF r.err # "none" THEN r ELSE Ok(Store(r.w, mb, data))

previous(w, mb) ==
    LET data == w.attached[mb] IN
    IF data = Null THEN Throw(w, "TypeError")
    ELSE LET w1 == PauseIfPlaying(w, mb)
             r == _reveal(w1, data, PreviousIdx(w1.heap[data]))
         IN  IF r.err # "none" THEN r ELSE Ok(Store(r.w, mb, data))

jump(w, mb, newidx) ==
    LET data == w.attached[mb] IN
    IF data = Null THEN Throw(w, "TypeError")
    ELSE LET w1 == PauseIfPlaying(w, mb)
             r == _reveal(w1, data, JumpIdx(w1.heap[data], newidx))
         IN  IF r.err # "none" THEN r ELSE Ok(Store(r.w, mb, data))

\* destroy (moodboard.js 287-291): returns null, which _handler does not
\* store, so the data object stays on the container.
destroy(w, mb) ==
    LET data == w.attached[mb] IN
    IF data = Null THEN Throw(w, "TypeError")
    ELSE LET w1 == IF w.heap[data].interval # Null
                   THEN clearInterval(w, w.heap[data].interval) ELSE w
             w2 == [w1 EXCEPT !.playing[mb] = FALSE, !.controls[mb] = 0]
         IN  Ok(Store(w2, mb, Null))

\* The setInterval callback of play (moodboard.js 259-262), closed over
\* its own data object: reveal the next slide, then store that data object
\* on the container.
tick(w, t) ==
    LET d == w.heap[t.data]
        r == _reveal(w, t.data, NextIdx(d))
    IN  IF r.err # "none" THEN r
        ELSE Ok([r.w EXCEPT !.attached[d.mb] = t.data])

\* ----------------------------------------------------------- initialization
\* The data object of _do_initialize (moodboard.js 126-136): the fresh
\* fields, then defaults, then the options, each shadowing the ones before.
NewData(mb, options) ==
    [mb |-> mb, count |-> nslides[mb], current |-> 0, interval |-> Null,
     slides |-> EmptyArray, widths |-> EmptyArray, heights |-> EmptyArray,
     width |-> options.width, height |-> options.height,
     slide_time |-> options.slide_time, autostart |-> options.autostart,
     controls |-> options.controls]

\* $slides.each of the load callback (moodboard.js 145-150): push the first
\* n slides of the container with their measured sizes.
RECURSIVE Measure(_, _)
Measure(d, n) ==
    IF n = 0 THEN d
    ELSE LET p == Measure(d, n - 1)
         IN  [p EXCEPT !.slides = Push(@, n - 1),
                       !.heights = Push(@, SlideHeight(d.mb, n - 1)),
                       !.widths = Push(@, SlideWidth(d.mb, n - 1))]

\* Whether the load callback starts the slideshow (moodboard.js 159).
Autostarts(d) == d.autostart /\ d.count > 1

\* The load callback without its $moodboard.data('moodboard', data): the
\* autostart finds no data and the marker class is added all the same.
LoadCallbackNoAttach(w, id) ==
    LET mb == w.heap[id].mb
        w1 == [w EXCEPT !.heap[id] = Measure(@, @.count)]
        w2 == _init_slides(w1, id)
        w3 == IF w2.heap[id].controls THEN _init_controls(w2, id) ELSE w2
        w5 == IF Autostarts(w3.heap[id]) THEN playpause(w3, mb).w ELSE w3
    IN  Ok([w5 EXCEPT !.marker[mb] = TRUE])

\* The load callback (moodboard.js 144-163) of the data object `id`.
LoadCallback(w, id) ==
    LET mb == w.heap[id].mb
        w1 == [w EXCEPT !.heap[id] = Measure(@, @.count)]
        w2 == _init_slides(w1, id)
        w3 == IF w2.heap[id].controls THEN _init_controls(w2, id) ELSE w2
        w4 == [w3 EXCEPT !.attached[mb] = id]
        w5 == IF Autostarts(w4.heap[id]) THEN playpause(w4, mb).w ELSE w4
    IN  Ok([w5 EXCEPT !.marker[mb] = TRUE])

\* ------------------------------------------------------------------ actions
\* The handlers of one event run to completion: while the load event is
\* being dispatched to its handlers nothing else runs.
Dispatching == loaded /\ pending # << >>

Commit(r, op, mb, arg) ==
    /\ heap' = r.w.heap
    /\ attached' = r.w.attached
    /\ css' = r.w.css
    /\ playing' = r.w.playing
    /\ marker' = r.w.marker
    /\ controls' = r.w.controls
    /\ timers' = r.w.timers
    /\ last' = [op |-> op, mb |-> mb, arg |-> arg, err |-> r.err]

\* methods.init (moodboard.js 195-203) and _do_initialize (125-165), called
\* through the entry point with the first argument `method`: a container
\* without data gets a new data object and a load handler.  A handler
\* bound after the load event has fired is never called, and the data
\* object only that handler refers to is not kept in the heap.
EntryInit(mb, options, method) ==
    /\ ~Dispatching
    /\ IF attached[mb] = Null /\ ~loaded
       THEN /\ Len(heap) < MaxInits
            /\ Commit(Ok([World EXCEPT !.heap = Append(@, NewData(mb, options))]),
                      method, mb, 0)
            /\ pending' = Append(pending, Len(heap) + 1)
       ELSE /\ Commit(Ok(World), method, mb, 0)
            /\ pending' = pending
    /\ UNCHANGED <<nslides, loaded>>

\* $('.slides').moodboard(options) and $('.slides').moodboard('init', options)
CmdInit(mb, options) == EntryInit(mb, options, "init")

\* The window's load event fires (once).
Load ==
    /\ ~loaded
    /\ loaded' = TRUE
    /\ Commit(Ok(World), "load", 0, 0)
    /\ UNCHANGED <<nslides, pending>>

\* The next bound load handler runs.
Continuation ==
    /\ Dispatching
    /\ Commit(LoadCallback(World, Head(pending)), "loaded",
              heap[Head(pending)].mb, 0)
    /\ pending' = Tail(pending)
    /\ UNCHANGED <<nslides, loaded>>

Command(r, op, mb, arg) ==
    /\ ~Dispatching
    /\ Commit(r, op, mb, arg)
    /\ UNCHANGED <<nslides, loaded, pending>>

CmdNext(mb) == Command(next(World, mb), "next", mb, 0)
CmdPrevious(mb) == Command(previous(World, mb), "previous", mb, 0)
CmdJump(mb, n) == Command(jump(World, mb, n), "jump", mb, n)
CmdPlay(mb) == Command(play(World, mb), "play", mb, 0)
CmdPause(mb) == Command(pause(World, mb), "pause", mb, 0)
CmdPlayPause(mb) == Command(playpause(World, mb), "playpause", mb, 0)
CmdDestroy(mb) == Command(destroy(World, mb), "destroy", mb, 0)

\* The entry point $.fn.moodboard (moodboard.js 306-313) looks the name up
\* with methods[method].  `methods` is an object literal, so the lookup
\* also finds the functions it inherits from Object.prototype.
OwnMethods ==
    {"init", "next", "previous", "jump", "play", "pause", "playpause",
     "destroy"}
InheritedMethods == {"toString", "constructor"}
\* Strings the entry point is called with that name no command: two names
\* Object.prototype knows, one it does not know, and the empty string.
OtherNames == InheritedMethods \cup {"foo", ""}

\* What the entry point does with a name: call methods[method], run init
\* (the name is an object or falsy), or report an error with $.error.
Dispatch(method) ==
    IF method \in OwnMethods \cup InheritedMethods THEN "method"
    ELSE IF method = "" THEN "init"
    ELSE "error"

\* The entry point called with a name that is no command.  The functions
\* of Object.prototype (toString, constructor) return normally when they
\* are applied to the jQuery object and touch nothing.
CmdOther(mb, method) ==
    /\ method \in OtherNames
    /\ CASE Dispatch(method) = "method" -> Command(Ok(World), method, mb, 0)
         [] Dispatch(method) = "init" -> EntryInit(mb, defaults, method)
         [] Dispatch(method) = "error" ->
                Command(Throw(World, "Error"), method, mb, 0)

\* A scheduled interval fires.
Tick(t) ==
    /\ t \in timers
    /\ Command(tick(World, t), "tick", heap[t.data].mb, 0)

\* The page as the browser has parsed it: `boards` are its containers.
InitPage(boards) ==
    /\ nslides \in [boards -> 1..MaxSlides]
    /\ loaded = FALSE
    /\ pending = << >>
    /\ heap = << >>
    /\ attached = [mb \in boards |-> Null]
    /\ css = [mb \in boards |-> [i \in 0..(nslides[mb] - 1) |-> NoStyle]]
    /\ playing = [mb \in boards |-> FALSE]
    /\ marker = [mb \in boards |-> FALSE]
    /\ controls = [mb \in boards |-> 0]
    /\ timers = {}
    /\ last = [op |-> "none", mb |-> 0, arg |-> 0, err |-> "none"]

Init == InitPage(Page)

Next ==
    \/ \E mb \in DOMAIN nslides, o \in Options : CmdInit(mb, o)
    \/ Load
    \/ Continuation
    \/ \E mb \in DOMAIN nslides : CmdNext(mb)
    \/ \E mb \in DOMAIN nslides : CmdPrevious(mb)
    \/ \E mb \in DOMAIN nslides, n \in JumpArgs : CmdJump(mb, n)
    \/ \E mb \in DOMAIN nslides : CmdPlay(mb)
    \/ \E mb \in DOMAIN nslides : CmdPause(mb)
    \/ \E mb \in DOMAIN nslides : CmdPlayPause(mb)
    \/ \E mb \in DOMAIN nslides : CmdDestroy(mb)
    \/ \E mb \in DOMAIN nslides, m \in OtherNames : CmdOther(mb, m)
    \/ \E t \in timers : Tick(t)

Spec == Init /\ [][Next]_vars

\* A page with two containers of MaxSlides slides, each initialized by one
\* init call of its own and then driven by every command and by its timer.
InitTwo ==
    /\ InitPage(Containers)
    /\ \A mb \in Containers : nslides[mb] = MaxSlides

NextTwo ==
    \/ \E mb \in DOMAIN nslides, o \in Options :
          /\ \A i \in DOMAIN heap : heap[i].mb # mb
          /\ CmdInit(mb, o)
    \/ Load
    \/ Continuation
    \/ \E mb \in DOMAIN nslides : CmdNext(mb)
    \/ \E mb \in DOMAIN nslides : CmdPrevious(mb)
    \/ \E mb \in DOMAIN nslides, n \in {0 - 1, 1} : CmdJump(mb, n)
    \/ \E mb \in DOMAIN nslides : CmdPlay(mb)
    \/ \E mb \in DOMAIN nslides : CmdPause(mb)
    \/ \E mb \in DOMAIN nslides : CmdPlayPause(mb)
    \/ \E mb \in DOMAIN nslides : CmdDestroy(mb)
    \/ \E t \in timers : Tick(t)

SpecTwo == InitTwo /\ [][NextTwo]_vars

\* ------------------------------------------------------------------ claims
\* What the claims speak about.
Initialized(mb) == attached[mb] # Null
Data(mb) == heap[attached[mb]]
\* The slides of a container that are shown, and the ones that are hidden.
Visible(mb) == {i \in DOMAIN css[mb] : css[mb][i].opacity = 1}
Hidden(mb) == {i \in DOMAIN css[mb] : css[mb][i].opacity = 0}
\* The scheduled intervals whose callback reveals slides of container mb.
TimersOf(mb) == {t \in timers : heap[t.data].mb = mb}
\* The data objects init has built for container mb.
RecordsOf(mb) == {i \in DOMAIN heap : heap[i].mb = mb}
\* The true modulo of the documentation, ((n % c) + c) % c in JavaScript.
TrueMod(n, c) == n % c

\* C1: after a single init has completed, in every state reached by next,
\* previous, jump(n), play, pause, playpause and timer ticks, exactly one
\* slide has opacity 1, all others have opacity 0, and the visible slide is
\* the one at currentIndex.
C1_ExactlyOneVisible ==
    \A mb \in DOMAIN nslides :
        (Initialized(mb) /\ Cardinality(RecordsOf(mb)) = 1) =>
            /\ Visible(mb) = {Data(mb).current}
            /\ Hidden(mb) = DOMAIN css[mb] \ {Data(mb).current}

\* C2: once a container is initialized, 0 <= currentIndex < slideCount in
\* every reachable state, whatever commands and ticks have run.
C2_CurrentInRange ==
    \A mb \in DOMAIN nslides :
        Initialized(mb) =>
            /\ Data(mb).current >= 0
            /\ Data(mb).current < Data(mb).count

\* A jump with a negative argument has just run on an initialized container
\* of several slides whose current slide is the last one.
C2_Witness ==
    /\ last.op = "jump" /\ last.arg < 0
    /\ Initialized(last.mb)
    /\ Data(last.mb).count > 1
    /\ Data(last.mb).current = Data(last.mb).count - 1

\* C3: for a container with attached state, data.interval is non-null if
\* and only if the container is playing: the interval it names is
\* scheduled and the class 'playing' is set.
C3_IntervalIffPlaying ==
    \A mb \in DOMAIN nslides :
        Initialized(mb) =>
            (Data(mb).interval # Null <=>
                /\ playing[mb]
                /\ \E t \in TimersOf(mb) : t.id = Data(mb).interval)

\* C4: jump(n) on an initialized container of c slides, for every integer
\* n, returns normally, reveals the slide ((n % c) + c) % c and makes it
\* currentIndex.
C4_JumpTrueModulo ==
    (last.op = "jump" /\ Initialized(last.mb)) =>
        /\ last.err = "none"
        /\ Data(last.mb).current = TrueMod(last.arg, Data(last.mb).count)
        /\ css[last.mb][TrueMod(last.arg, Data(last.mb).count)].opacity = 1

\* C5: destroy on an initialized container detaches its state: the
\* container is uninitialized afterwards, so that the next init builds
\* fresh state.
C5_DestroyDetaches ==
    (last.op = "destroy" /\ last.err = "none") => ~Initialized(last.mb)

\* C6: after destroy on an initialized container no autoplay timer of the
\* container is scheduled, the class 'playing' is absent and no controls
\* block is left.
C6_DestroyStopsEverything ==
    (last.op = "destroy" /\ last.err = "none") =>
        /\ TimersOf(last.mb) = {}
        /\ ~playing[last.mb]
        /\ controls[last.mb] = 0

\* C7: whatever number of init calls a container gets, before or after the
\* load continuation, one state record is built for it, one controls block
\* is rendered and at most one timer is started by autostart.
C7_InitOnce ==
    \A mb \in DOMAIN nslides :
        /\ Cardinality(RecordsOf(mb)) <= 1
        /\ controls[mb] <= 1

\* C8: when next, previous or jump has run on a playing container, it has
\* returned normally, the requested slide is the visible one, and no timer
\* of the container is scheduled any more (so no tick changes the slide
\* until play or playpause).
C8_NavigationStopsAutoplay ==
    [][\A mb \in DOMAIN nslides :
        (/\ Initialized(mb) /\ playing[mb]
         /\ \/ CmdNext(mb)
            \/ CmdPrevious(mb)
            \/ \E n \in JumpArgs : CmdJump(mb, n))
        => /\ last'.err = "none"
           /\ TimersOf(mb)' = {}
           /\ Visible(mb)' = {Data(mb).current'}]_vars

\* C9: play on a container with attached state, called twice in a row,
\* leaves exactly one scheduled timer for it.  The second of two plays
\* changes nothing the first left (data.interval is set), so the states
\* after two plays are the states after a play that returned normally.
C9_PlayTwiceOneTimer ==
    (last.op = "play" /\ last.err = "none") =>
        Cardinality(TimersOf(last.mb)) = 1

\* C10: when a load continuation finishes, its container is playing (class
\* 'playing' set, a timer scheduled) if and only if autostart is enabled
\* and slideCount > 1.
C10_PlayingIffAutostart ==
    last.op = "loaded" =>
        ((playing[last.mb] /\ TimersOf(last.mb) # {})
            <=> (Data(last.mb).autostart /\ Data(last.mb).count > 1))

\* The index a container shows in a world w.
CurrentIn(w, mb) == w.heap[w.attached[mb]].current

C12_TickAdvances ==
    [][\A t \in timers :
        (Tick(t) /\ playing[heap[t.data].mb] /\ last.op \in {"loaded", "tick"}) =>
            LET mb == heap[t.data].mb
                shown == (Data(mb).current + 1) % Data(mb).count
            IN  /\ last'.err = "none"
                /\ Data(mb).current' = shown
                /\ css'[mb][shown].opacity = 1]_vars

\* C13: pause on an initialized container that is not playing (no timer of
\* it is scheduled and the class 'playing' is absent) is a no-op: it
\* returns normally and leaves currentIndex, the slides' style, the timer
\* handle, the timers and the class 'playing' as they were.
C13_PauseWhenNotPlayingIsNoop ==
    [][\A mb \in DOMAIN nslides :
        (/\ Initialized(mb) /\ ~playing[mb] /\ TimersOf(mb) = {}
         /\ CmdPause(mb))
        => /\ last'.err = "none"
           /\ UNCHANGED <<heap, attached, css, playing, timers>>]_vars

\* C14: destroy on a container without attached state (never initialized,
\* or init called and the load continuation not yet run) is a no-op: it
\* raises no error.  destroy never changes whether a container has
\* attached state, so the container had none before the call either.
C14_DestroyUninitializedIsNoop ==
    (last.op = "destroy" /\ ~Initialized(last.mb)) => last.err = "none"

\* C15: the entry point called with a name that is none of init, next,
\* previous, jump, play, pause, playpause, destroy ends in a reported
\* error: no such name is accepted silently or treated as init.
C15_UnknownCommandIsError ==
    last.op \in OtherNames => last.err = "Error"

\* C16: with two containers initialized independently, a command, load
\* continuation or timer tick of one container leaves the other container's
\* state records, its attached record, its scheduled timers, its slides'
\* style, its classes and its controls unchanged.
C16_ContainersIndependent ==
    [][\A mb \in DOMAIN nslides :
        last'.mb # mb =>
            /\ attached'[mb] = attached[mb]
            /\ css'[mb] = css[mb]
            /\ playing'[mb] = playing[mb]
            /\ marker'[mb] = marker[mb]
            /\ controls'[mb] = controls[mb]
            /\ TimersOf(mb)' = TimersOf(mb)
            /\ RecordsOf(mb)' = RecordsOf(mb)
            /\ \A i \in RecordsOf(mb) : heap'[i] = heap[i]]_vars

\* Both containers were playing, and pause has just stopped the timer of
\* container 1 while the timer of container 2 is still scheduled.
C16_Witness ==
    /\ last.op = "pause" /\ last.mb = 1 /\ last.err = "none"
    /\ Initialized(1) /\ Initialized(2)
    /\ TimersOf(1) = {} /\ ~playing[1]
    /\ TimersOf(2) # {} /\ playing[2]

\* The fields of a state record that are fixed at initialization.
Dimensions(d) ==
    <<d.count, d.slides, d.widths, d.heights, d.width, d.height>>
\* The opacity of every slide of a container.
Opacities(mb) == [i \in DOMAIN css[mb] |-> css[mb][i].opacity]
\* The state records whose load continuation has run.
Measured == {i \in DOMAIN heap : \A k \in DOMAIN pending : pending[k] # i}

C18_DeferredInitialization ==
    /\ ~loaded =>
        /\ \A i \in DOMAIN heap :
                heap[i].slides = EmptyArray /\ heap[i].interval = Null
        /\ timers = {}
        /\ \A mb \in DOMAIN nslides :
                /\ ~Initialized(mb)
                /\ \A s \in DOMAIN css[mb] : css[mb][s] = NoStyle
                /\ controls[mb] = 0
                /\ ~playing[mb] /\ ~marker[mb]
    /\ \A mb \in DOMAIN nslides : marker[mb] => Initialized(mb)
    /\ (last.op = "loaded" /\ Autostarts(Data(last.mb))) =>
            \E t \in timers :
                /\ t.data = attached[last.mb]
                /\ t.id = Data(last.mb).interval

\* A load continuation with autostart has just finished on a container of
\* several slides: state attached, timer scheduled, marker class set.
C18_Witness ==
    /\ last.op = "loaded"
    /\ marker[last.mb] /\ Initialized(last.mb)
    /\ Autostarts(Data(last.mb))
    /\ playing[last.mb] /\ TimersOf(last.mb) # {}

\* C19: in every reachable state, also after several init calls before
\* the load event, every scheduled autoplay timer of a container has its
\* handle in the interval field of the state record attached to that
\* container (so at most one timer per container is scheduled, and one
\* pause or destroy stops all automatic reveals).
C19_TimersAreTracked ==
    \A t \in timers :
        LET mb == heap[t.data].mb
        IN  /\ Initialized(mb)
            /\ Data(mb).interval = t.id

\* C20: a command that ends in an error is atomic: when next, previous,
\* jump, play, pause, playpause or destroy raises an error, the state
\* records, the attached record, the slides' style, the timers and the
\* class 'playing' are as they were before the call.
C20_FailedCommandIsAtomic ==
    [][(last'.op \in OwnMethods /\ last'.err # "none") =>
            UNCHANGED <<heap, attached, css, timers, playing>>]_vars

====
